---- MODULE Spec2Model ----
(***************************************************************************)
(* Model of legal-document-automation.js: the structured-note payment      *)
(* calculator, its parameter validator, the payment-table driver and main. *)
(*                                                                         *)
(* JavaScript values are records tagged with their typeof.  Numbers are    *)
(* fixed-point with four decimal places (v = value * SCALE), which is the  *)
(* resolution of every literal of the source (10.1667, -0.1001) and of the *)
(* rendering payment.toFixed(4); NaN is a number-typed value with the      *)
(* comparison and arithmetic rules of the language.  IEEE rounding of      *)
(* doubles is abstracted to rounding at the fourth decimal place, and      *)
(* infinities are outside the number domain.                               *)
(***************************************************************************)
EXTENDS Integers, Sequences, FiniteSets, TLC

\* Fixed-point unit: four decimal places.
SCALE == 10000

\* Bounds of the grid of underlying returns tried besides the sample returns,
\* in tenths: -MaxLossTenths/10 .. MaxGainTenths/10.
MaxLossTenths == 12
MaxGainTenths == 6

---------------------------------------------------------------------------
(* JavaScript values *)

Num(n) == [type |-> "number", nan |-> FALSE, v |-> n]
NaN == [type |-> "number", nan |-> TRUE, v |-> 0]
\* A non-numeric string such as "x"; every concatenation with it is again a
\* non-numeric string, and all of them are represented by this value.
Str == [type |-> "string", s |-> "x"]
Undefined == [type |-> "undefined"]
Null == [type |-> "object"]
\* The marker generatePaymentTable stores in a failed row.
ERROR == [type |-> "string", s |-> "ERROR"]

typeof(x) == x.type

\* A number-typed value other than NaN.
IsReal(x) == typeof(x) = "number" /\ ~x.nan

\* ToNumber of the language on the values above.
ToNumber(x) ==
    IF typeof(x) = "number" THEN x
    ELSE IF x = Null THEN Num(0)
    ELSE NaN

\* a * b / SCALE rounded to the nearest unit; both factors are split at SCALE
\* so that no intermediate product exceeds 32 bits.
FxMul(a, b) ==
    LET qa == a \div SCALE
        ma == a % SCALE
        qb == b \div SCALE
        mb == b % SCALE
    IN  qa * qb * SCALE + qa * mb + ma * qb
            + ((2 * ma * mb + SCALE) \div (2 * SCALE))

\* The binary + of the language: concatenation when an operand is a string.
Add(a, b) ==
    IF typeof(a) = "string" \/ typeof(b) = "string" THEN Str
    ELSE LET x == ToNumber(a)
             y == ToNumber(b)
         IN  IF x.nan \/ y.nan THEN NaN ELSE Num(x.v + y.v)

\* The binary * of the language.
Mul(a, b) ==
    LET x == ToNumber(a)
        y == ToNumber(b)
    IN  IF x.nan \/ y.nan THEN NaN ELSE Num(FxMul(x.v, y.v))

\* Mutant of Ge: the threshold comparison made strict.
GeStrict(a, b) ==
    LET x == ToNumber(a)
        y == ToNumber(b)
    IN  ~x.nan /\ ~y.nan /\ x.v > y.v

\* Relational operators with a number on one side: false when either is NaN.
Ge(a, b) ==
    LET x == ToNumber(a)
        y == ToNumber(b)
    IN  ~x.nan /\ ~y.nan /\ x.v >= y.v

\* Mutant of Lt: the advisory test made inclusive.
LtInclusive(a, b) ==
    LET x == ToNumber(a)
        y == ToNumber(b)
    IN  ~x.nan /\ ~y.nan /\ x.v <= y.v

Lt(a, b) ==
    LET x == ToNumber(a)
        y == ToNumber(b)
    IN  ~x.nan /\ ~y.nan /\ x.v < y.v

Le(a, b) ==
    LET x == ToNumber(a)
        y == ToNumber(b)
    IN  ~x.nan /\ ~y.nan /\ x.v <= y.v

Gt(a, b) ==
    LET x == ToNumber(a)
        y == ToNumber(b)
    IN  ~x.nan /\ ~y.nan /\ x.v > y.v

\* Mutant of MathMax: the floor is dropped.
MathMaxNoFloor(a, b) == ToNumber(a)

\* Math.max of two arguments: NaN when either converts to NaN.
MathMax(a, b) ==
    LET x == ToNumber(a)
        y == ToNumber(b)
    IN  IF x.nan \/ y.nan THEN NaN
        ELSE IF x.v >= y.v THEN x ELSE y

\* Number.prototype.toFixed(d) at the model's resolution: the decimal string
\* of the value; calling it on a value that is not a number is a TypeError.
\* The string is kept as the digits at SCALE and the number of places shown.
toFixed(x, d) ==
    IF x.nan THEN [type |-> "string", s |-> "NaN"]
    ELSE [type |-> "string", s |-> ToString(x.v), places |-> d]

---------------------------------------------------------------------------
(* FINANCIAL_PARAMS *)

DefaultParams ==
    [ PRINCIPAL_AMOUNT            |-> Num(10000000),
      CONTINGENT_INTEREST_RATE    |-> Num(1220),
      BUFFER_THRESHOLD            |-> Num(9000),
      BUFFER_AMOUNT               |-> Num(1000),
      CONTINGENT_INTEREST_PAYMENT |-> Num(101667) ]

\* The values an importing module may assign to each field of the exported,
\* mutable FINANCIAL_PARAMS object.
FieldValues ==
    [ PRINCIPAL_AMOUNT            |-> {Num(10000000), Num(5000), Num(0), Num(-50000), NaN, Str},
      CONTINGENT_INTEREST_RATE    |-> {Num(1220), Str},
      BUFFER_THRESHOLD            |-> {Num(9000), Num(10000), Num(15000), Num(0), Num(-5000), NaN, Undefined},
      BUFFER_AMOUNT               |-> {Num(1000), Num(0), Num(5000), NaN},
      CONTINGENT_INTEREST_PAYMENT |-> {Num(101667), Num(0), Num(-20000000), NaN, Str} ]

FieldNames == DOMAIN DefaultParams

---------------------------------------------------------------------------
(* calculatePaymentAtMaturity *)

Thrown(msg, logs) == [outcome |-> "throw", error |-> msg, value |-> Undefined, console |-> logs]
Returned(val, logs) == [outcome |-> "return", error |-> "", value |-> val, console |-> logs]

TotalLossWarning == [level |-> "warn", text |-> "Underlying return less than -100% detected"]

\* Mutant of calculatePaymentAtMaturity: the downside branch leaves the
\* buffer amount out.
calculateWithoutBuffer(underlyingReturn, params) ==
    IF typeof(underlyingReturn) # "number"
    THEN Thrown("Underlying return must be a number", <<>>)
    ELSE LET logs == IF Lt(underlyingReturn, Num(-SCALE)) THEN <<TotalLossWarning>> ELSE <<>>
         IN  IF params = Null
             THEN Thrown("TypeError", logs)
             ELSE IF Ge(Add(Num(SCALE), underlyingReturn), params.BUFFER_THRESHOLD)
             THEN Returned(Add(params.PRINCIPAL_AMOUNT, params.CONTINGENT_INTEREST_PAYMENT), logs)
             ELSE Returned(MathMax(Add(params.PRINCIPAL_AMOUNT,
                                       Mul(params.PRINCIPAL_AMOUNT, underlyingReturn)), Num(0)), logs)

calculatePaymentAtMaturity(underlyingReturn, params) ==
    IF typeof(underlyingReturn) # "number"
    THEN Thrown("Underlying return must be a number", <<>>)
    ELSE LET logs == IF Lt(underlyingReturn, Num(-SCALE)) THEN <<TotalLossWarning>> ELSE <<>>
         IN  IF params = Null
             THEN Thrown("TypeError", logs)
             ELSE LET PRINCIPAL_AMOUNT == params.PRINCIPAL_AMOUNT
                      BUFFER_THRESHOLD == params.BUFFER_THRESHOLD
                      BUFFER_AMOUNT == params.BUFFER_AMOUNT
                      CONTINGENT_INTEREST_PAYMENT == params.CONTINGENT_INTEREST_PAYMENT
                      finalValueRatio == Add(Num(SCALE), underlyingReturn)
                  IN  IF Ge(finalValueRatio, BUFFER_THRESHOLD)
                      THEN Returned(Add(PRINCIPAL_AMOUNT, CONTINGENT_INTEREST_PAYMENT), logs)
                      ELSE LET adjustedReturn == Add(underlyingReturn, BUFFER_AMOUNT)
                               payment == Add(PRINCIPAL_AMOUNT, Mul(PRINCIPAL_AMOUNT, adjustedReturn))
                           IN  Returned(MathMax(payment, Num(0)), logs)

---------------------------------------------------------------------------
(* generatePaymentTable *)

underlyingReturns ==
    << Num(6000), Num(4000), Num(2000), Num(500), Num(0), Num(-500), Num(-1000),
       Num(-1001), Num(-2000), Num(-3000), Num(-4000), Num(-6000), Num(-8000),
       Num(-10000) >>

\* One iteration of the loop body: the try block computes and formats the
\* row, the catch block logs and pushes the "ERROR" row.
\* Mutant of ErrorRow: a failed row records a zero payment.
ErrorRowAsZero(underlyingReturn) ==
    [ underlyingReturn        |-> underlyingReturn,
      underlyingReturnPercent |-> toFixed(Mul(underlyingReturn, Num(100 * SCALE)), 2),
      paymentAtMaturity       |-> Num(0),
      paymentFormatted        |-> toFixed(Num(0), 4) ]

ErrorRow(underlyingReturn) ==
    [ underlyingReturn        |-> underlyingReturn,
      underlyingReturnPercent |-> toFixed(Mul(underlyingReturn, Num(100 * SCALE)), 2),
      paymentAtMaturity       |-> ERROR,
      paymentFormatted        |-> ERROR ]

PaymentRow(underlyingReturn, payment) ==
    [ underlyingReturn        |-> underlyingReturn,
      underlyingReturnPercent |-> toFixed(Mul(underlyingReturn, Num(100 * SCALE)), 2),
      paymentAtMaturity       |-> payment,
      paymentFormatted        |-> toFixed(payment, 4) ]

RowError(underlyingReturn, msg) ==
    [level |-> "error", text |-> "Error calculating payment for return", about |-> underlyingReturn, message |-> msg]

\* The result of the try/catch of one iteration: the row pushed and the lines
\* written to the console.
TryRow(underlyingReturn, params) ==
    LET c == calculatePaymentAtMaturity(underlyingReturn, params)
    IN  IF c.outcome = "throw"
        THEN [row |-> ErrorRow(underlyingReturn),
              console |-> c.console \o <<RowError(underlyingReturn, c.error)>>]
        ELSE IF typeof(c.value) # "number"
        THEN \* payment.toFixed is not a function: TypeError inside the try
             [row |-> ErrorRow(underlyingReturn),
              console |-> c.console \o <<RowError(underlyingReturn, "TypeError")>>]
        ELSE [row |-> PaymentRow(underlyingReturn, c.value), console |-> c.console]

\* Mutant of TableLoop: the catch block logs but pushes no row.
RECURSIVE TableLoopSkipsFailures(_, _, _, _)
TableLoopSkipsFailures(i, results, logs, params) ==
    IF i > Len(underlyingReturns) THEN [results |-> results, console |-> logs]
    ELSE LET t == TryRow(underlyingReturns[i], params)
         IN  TableLoopSkipsFailures(i + 1,
                 IF t.row.paymentAtMaturity = ERROR THEN results ELSE Append(results, t.row),
                 logs \o t.console, params)

RECURSIVE TableLoop(_, _, _, _)
TableLoop(i, results, logs, params) ==
    IF i > Len(underlyingReturns) THEN [results |-> results, console |-> logs]
    ELSE LET t == TryRow(underlyingReturns[i], params)
         IN  TableLoop(i + 1, Append(results, t.row), logs \o t.console, params)

Array(rows) == [type |-> "object", rows |-> rows]

\* params is the effective argument: FINANCIAL_PARAMS when the caller passes
\* nothing (or undefined), else what the caller passes.
generatePaymentTable(params) ==
    LET l == TableLoop(1, <<>>, <<>>, params)
    IN  Returned(Array(l.results), l.console)

---------------------------------------------------------------------------
(* displayPaymentTable *)

RECURSIVE DisplayLoop(_, _, _)
DisplayLoop(i, tableData, lines) ==
    IF i > Len(tableData) THEN lines
    ELSE LET row == tableData[i]
         IN  DisplayLoop(i + 1, tableData,
                 Append(lines, [level |-> "log", text |-> "row",
                                returnStr |-> row.underlyingReturnPercent,
                                paymentStr |-> row.paymentFormatted]))

displayPaymentTable(tableData) ==
    DisplayLoop(1, tableData, <<[level |-> "log", text |-> "=== STRUCTURED NOTES PAYMENT TABLE ==="]>>)
        \o <<[level |-> "log", text |-> "================================================"]>>

---------------------------------------------------------------------------
(* validateFinancialParams *)

requiredFields ==
    << "PRINCIPAL_AMOUNT", "CONTINGENT_INTEREST_RATE", "BUFFER_THRESHOLD",
       "BUFFER_AMOUNT", "CONTINGENT_INTEREST_PAYMENT" >>

True == [type |-> "boolean", b |-> TRUE]

validateFinancialParams(params) ==
    IF params = Null THEN Thrown("TypeError", <<>>)
    ELSE LET bad == {i \in 1..Len(requiredFields) : typeof(params[requiredFields[i]]) # "number"}
         IN  IF bad # {}
             THEN LET first == CHOOSE i \in bad : \A j \in bad : i <= j
                  IN  Thrown("Invalid parameter: " \o requiredFields[first] \o " must be a number", <<>>)
             ELSE IF Le(params.BUFFER_THRESHOLD, Num(0)) \/ Gt(params.BUFFER_THRESHOLD, Num(SCALE))
             THEN Thrown("Buffer threshold must be between 0 and 1", <<>>)
             ELSE IF Le(params.PRINCIPAL_AMOUNT, Num(0))
             THEN Thrown("Principal amount must be positive", <<>>)
             ELSE Returned(True, <<>>)

---------------------------------------------------------------------------
(* State *)

VARIABLES
    FINANCIAL_PARAMS,  \* the module-level, exported, mutable parameter object
    pc,                \* "idle", "returned", or the position inside main
    call,              \* the exported function being run and its arguments
    ret,               \* what the call returned or threw
    console,           \* the lines the call wrote to the console, in order
    paymentTable       \* main's local paymentTable

vars == <<FINANCIAL_PARAMS, pc, call, ret, console, paymentTable>>

NoCall == [op |-> "none", underlyingReturn |-> Undefined, params |-> Undefined]
NoRet == [outcome |-> "none", error |-> "", value |-> Undefined, console |-> <<>>]
NoTable == Undefined

\* The underlying returns a caller passes to calculatePaymentAtMaturity.
ReturnInputs ==
    {underlyingReturns[i] : i \in 1..Len(underlyingReturns)}
        \cup {Num(k * 1000) : k \in (0 - MaxLossTenths)..MaxGainTenths}
        \cup {Num(-10001), NaN, Str, Undefined}

\* The params argument of a call: nothing or FINANCIAL_PARAMS itself (the
\* default), or null.
ParamInputs == {FINANCIAL_PARAMS, Null}

Init ==
    /\ FINANCIAL_PARAMS = DefaultParams
    /\ pc = "idle"
    /\ call = NoCall
    /\ ret = NoRet
    /\ console = <<>>
    /\ paymentTable = NoTable

\* An importing module assigns to a field of the exported FINANCIAL_PARAMS.
AssignParam ==
    /\ pc = "idle"
    /\ \E f \in FieldNames : \E x \in FieldValues[f] :
           /\ FINANCIAL_PARAMS[f] # x
           /\ FINANCIAL_PARAMS' = [FINANCIAL_PARAMS EXCEPT ![f] = x]
    /\ UNCHANGED <<pc, call, ret, console, paymentTable>>

CallCalculate ==
    /\ pc = "idle"
    /\ \E r \in ReturnInputs : \E p \in ParamInputs :
           LET c == calculatePaymentAtMaturity(r, p)
           IN  /\ call' = [op |-> "calculatePaymentAtMaturity", underlyingReturn |-> r, params |-> p]
               /\ ret' = c
               /\ console' = c.console
    /\ pc' = "returned"
    /\ UNCHANGED <<FINANCIAL_PARAMS, paymentTable>>

CallValidate ==
    /\ pc = "idle"
    /\ \E p \in ParamInputs :
           LET c == validateFinancialParams(p)
           IN  /\ call' = [op |-> "validateFinancialParams", underlyingReturn |-> Undefined, params |-> p]
               /\ ret' = c
               /\ console' = c.console
    /\ pc' = "returned"
    /\ UNCHANGED <<FINANCIAL_PARAMS, paymentTable>>

CallGenerate ==
    /\ pc = "idle"
    /\ \E p \in ParamInputs :
           LET c == generatePaymentTable(p)
           IN  /\ call' = [op |-> "generatePaymentTable", underlyingReturn |-> Undefined, params |-> p]
               /\ ret' = c
               /\ console' = c.console
    /\ pc' = "returned"
    /\ UNCHANGED <<FINANCIAL_PARAMS, paymentTable>>

---------------------------------------------------------------------------
(* main *)

StrictEq(a, b) == a = b /\ ~(typeof(a) = "number" /\ a.nan)

MainStart ==
    /\ pc = "idle"
    /\ pc' = "main_validate"
    /\ call' = [op |-> "main", underlyingReturn |-> Undefined, params |-> Undefined]
    /\ console' = <<[level |-> "log", text |-> "Legal Document Automation - Structured Notes Calculator"]>>
    /\ UNCHANGED <<FINANCIAL_PARAMS, ret, paymentTable>>

MainCatch(msg) ==
    /\ console' = Append(console, [level |-> "error", text |-> "Error in main execution:", message |-> msg])
    /\ ret' = Returned(Null, <<>>)
    /\ pc' = "returned"

\* Mutant of MainValidate: the outcome of the validation is ignored.
MainValidateUnchecked ==
    /\ pc = "main_validate"
    /\ pc' = "main_generate"
    /\ UNCHANGED <<FINANCIAL_PARAMS, call, ret, console, paymentTable>>

MainValidate ==
    /\ pc = "main_validate"
    /\ LET c == validateFinancialParams(FINANCIAL_PARAMS)
       IN  IF c.outcome = "throw"
           THEN MainCatch(c.error) /\ UNCHANGED <<FINANCIAL_PARAMS, call, paymentTable>>
           ELSE /\ pc' = "main_generate"
                /\ UNCHANGED <<FINANCIAL_PARAMS, call, ret, console, paymentTable>>

MainGenerate ==
    /\ pc = "main_generate"
    /\ LET c == generatePaymentTable(FINANCIAL_PARAMS)
       IN  /\ paymentTable' = c.value
           /\ console' = console \o c.console
    /\ pc' = "main_display"
    /\ UNCHANGED <<FINANCIAL_PARAMS, call, ret>>

MainDisplay ==
    /\ pc = "main_display"
    /\ console' = console \o displayPaymentTable(paymentTable.rows)
    /\ pc' = "main_analysis"
    /\ UNCHANGED <<FINANCIAL_PARAMS, call, ret, paymentTable>>

MainAnalysis ==
    /\ pc = "main_analysis"
    /\ LET full == Add(FINANCIAL_PARAMS.PRINCIPAL_AMOUNT, FINANCIAL_PARAMS.CONTINGENT_INTEREST_PAYMENT)
           protectedReturns ==
               Cardinality({i \in 1..Len(paymentTable.rows) :
                               StrictEq(paymentTable.rows[i].paymentAtMaturity, full)})
       IN  console' = Append(console, [level |-> "log", text |-> "ANALYSIS",
                                       protectedReturns |-> protectedReturns,
                                       scenarios |-> Len(paymentTable.rows)])
    /\ ret' = Returned(paymentTable, <<>>)
    /\ pc' = "returned"
    /\ UNCHANGED <<FINANCIAL_PARAMS, call, paymentTable>>

\* The caller takes the result; the next call starts from a clean record.
Resume ==
    /\ pc = "returned"
    /\ pc' = "idle"
    /\ call' = NoCall
    /\ ret' = NoRet
    /\ console' = <<>>
    /\ paymentTable' = NoTable
    /\ UNCHANGED FINANCIAL_PARAMS

Next ==
    \/ AssignParam
    \/ CallCalculate
    \/ CallValidate
    \/ CallGenerate
    \/ MainStart
    \/ MainValidate
    \/ MainGenerate
    \/ MainDisplay
    \/ MainAnalysis
    \/ Resume

Spec == Init /\ [][Next]_vars

---------------------------------------------------------------------------
(* Properties *)

\* A call of calculatePaymentAtMaturity has completed.
Calculated == pc = "returned" /\ call.op = "calculatePaymentAtMaturity"
Validated == pc = "returned" /\ call.op = "validateFinancialParams"
Generated == pc = "returned" /\ call.op = "generatePaymentTable"
MainReturned == pc = "returned" /\ call.op = "main"

\* The payment of the downside formula max(0, P + P * (r + B)) in plain
\* arithmetic; NaN when P or B is not a real number.
DownsidePayment(r, params) ==
    LET P == params.PRINCIPAL_AMOUNT
        B == params.BUFFER_AMOUNT
    IN  IF IsReal(P) /\ IsReal(B)
        THEN LET x == P.v + FxMul(P.v, r.v + B.v)
             IN  Num(IF x >= 0 THEN x ELSE 0)
        ELSE NaN

\* 1 + r >= BUFFER_THRESHOLD, in plain arithmetic.
AtOrAboveThreshold(r, params) ==
    /\ IsReal(r)
    /\ IsReal(params.BUFFER_THRESHOLD)
    /\ SCALE + r.v >= params.BUFFER_THRESHOLD.v

\* 1 + r < BUFFER_THRESHOLD, in plain arithmetic.
BelowThreshold(r, params) ==
    /\ IsReal(r)
    /\ IsReal(params.BUFFER_THRESHOLD)
    /\ SCALE + r.v < params.BUFFER_THRESHOLD.v

\* C1: whenever 1 + r >= BUFFER_THRESHOLD (boundary included) the call returns
\* exactly PRINCIPAL_AMOUNT + CONTINGENT_INTEREST_PAYMENT, however large r is;
\* with the default parameters the payment for r = -0.10 is 1010.1667.
C1_FlatRegion ==
    Calculated /\ call.params # Null =>
        /\ AtOrAboveThreshold(call.underlyingReturn, call.params) =>
               /\ ret.outcome = "return"
               /\ ret.value = Add(call.params.PRINCIPAL_AMOUNT,
                                  call.params.CONTINGENT_INTEREST_PAYMENT)
        /\ (call.params = DefaultParams /\ call.underlyingReturn = Num(-1000)) =>
               ret.value = Num(10101667)

C1_Witness ==
    /\ Calculated
    /\ call.params = DefaultParams
    /\ call.underlyingReturn = Num(-1000)
    /\ ret.outcome = "return"
    /\ ret.value = Num(10101667)

\* C2: whenever 1 + r < BUFFER_THRESHOLD the call returns
\* max(0, P + P * (r + BUFFER_AMOUNT)); with the default parameters the payment
\* for r = -0.1001 is 999.9, strictly below the flat payoff.
C2_DownsideRegion ==
    Calculated /\ call.params # Null =>
        /\ BelowThreshold(call.underlyingReturn, call.params) =>
               /\ ret.outcome = "return"
               /\ ret.value = DownsidePayment(call.underlyingReturn, call.params)
        /\ (call.params = DefaultParams /\ call.underlyingReturn = Num(-1001)) =>
               /\ ret.value = Num(9999000)
               /\ ret.value.v < DefaultParams.PRINCIPAL_AMOUNT.v
                                    + DefaultParams.CONTINGENT_INTEREST_PAYMENT.v

C2_Witness ==
    /\ Calculated
    /\ call.params = DefaultParams
    /\ call.underlyingReturn = Num(-1001)
    /\ ret.value = Num(9999000)

\* A second case of C2 that the floor decides: the formula is negative.
C2_FloorReached ==
    /\ Calculated
    /\ call.params = DefaultParams
    /\ call.underlyingReturn = Num(-12000)
    /\ ret.value = Num(0)

\* C3 as stated: with the default parameters the payment for r = -1.0 is 0.
C3_AsStated ==
    (Calculated /\ call.params = DefaultParams /\ call.underlyingReturn = Num(-SCALE)) =>
        ret.value = Num(0)

\* C3 amended: with the default parameters the payment for r = -1.0 is
\* 1000 + 1000 * (-1 + 0.10) = 100; the floor does not apply there.
C3_TotalLossPaysBuffer ==
    (Calculated /\ call.params = DefaultParams /\ call.underlyingReturn = Num(-SCALE)) =>
        /\ ret.outcome = "return"
        /\ ret.value = Num(1000000)

C3_Witness ==
    /\ Calculated
    /\ call.params = DefaultParams
    /\ call.underlyingReturn = Num(-SCALE)
    /\ ret.value = Num(1000000)

\* Whether the sequence of console lines holds the advisory.
Advised == \E i \in 1..Len(console) : console[i] = TotalLossWarning

\* C8: a return that is not of type number makes the call throw, with no
\* payment and no advisory; a return below -1 emits the advisory and the call
\* still returns the payment of the formula; a return >= -1 emits no advisory.
C8_InputCheckAndAdvisory ==
    Calculated =>
        LET r == call.underlyingReturn
        IN  /\ typeof(r) # "number" =>
                   /\ ret.outcome = "throw"
                   /\ ret.value = Undefined
                   /\ console = <<>>
            /\ (IsReal(r) /\ r.v < -SCALE) =>
                   /\ Advised
                   /\ call.params # Null =>
                          /\ ret.outcome = "return"
                          /\ ret.value =
                                 IF AtOrAboveThreshold(r, call.params)
                                 THEN Add(call.params.PRINCIPAL_AMOUNT,
                                          call.params.CONTINGENT_INTEREST_PAYMENT)
                                 ELSE DownsidePayment(r, call.params)
            /\ (IsReal(r) /\ r.v >= -SCALE) => ~Advised

C8_Witness ==
    /\ Calculated
    /\ call.underlyingReturn = Num(-12000)
    /\ call.params = DefaultParams
    /\ Advised
    /\ ret.outcome = "return"
    /\ ret.value = Num(0)

\* A second case of C8: the argument is not a number and the call throws.
C8_Rejected ==
    /\ Calculated
    /\ call.underlyingReturn = Str
    /\ ret.outcome = "throw"

\* Every required field of the parameter set is a number other than NaN.
AllFieldsReal(params) ==
    /\ params # Null
    /\ \A i \in 1..Len(requiredFields) : IsReal(params[requiredFields[i]])

\* C4 as stated: for every parameter set validateFinancialParams accepts and
\* every numeric underlying return, the payment returned is a non-negative
\* number.  Stated here on the inputs free of NaN only, where it already
\* fails.
C4_PaymentNonNegative ==
    (/\ Calculated
     /\ validateFinancialParams(call.params).outcome = "return"
     /\ AllFieldsReal(call.params)
     /\ IsReal(call.underlyingReturn)) =>
        /\ ret.outcome = "return"
        /\ IsReal(ret.value)
        /\ ret.value.v >= 0

\* What the validator is documented to accept: every required field of type
\* number, 0 < BUFFER_THRESHOLD <= 1 and PRINCIPAL_AMOUNT > 0.
WellFormed(params) ==
    /\ params # Null
    /\ \A i \in 1..Len(requiredFields) : typeof(params[requiredFields[i]]) = "number"
    /\ IsReal(params.BUFFER_THRESHOLD)
    /\ 0 < params.BUFFER_THRESHOLD.v
    /\ params.BUFFER_THRESHOLD.v <= SCALE
    /\ IsReal(params.PRINCIPAL_AMOUNT)
    /\ params.PRINCIPAL_AMOUNT.v > 0

\* C5 as stated: validateFinancialParams succeeds exactly on the well-formed
\* parameter sets and throws on every other one, and leaves params as it was.
C5_ValidatesExactly ==
    Validated =>
        /\ ret.outcome = "return" <=> WellFormed(call.params)
        /\ ret.outcome = "throw" <=> ~WellFormed(call.params)
        /\ call.params # Null => call.params = FINANCIAL_PARAMS

\* The rows of the table a completed generatePaymentTable returned.
Rows == ret.value.rows

\* C6: the table has one row per sample return, in the order of the sample
\* returns, whether a row was computed or recorded as an error.
C6_RowsInInputOrder ==
    Generated =>
        /\ ret.outcome = "return"
        /\ Len(Rows) = Len(underlyingReturns)
        /\ \A i \in 1..Len(underlyingReturns) :
               Rows[i].underlyingReturn = underlyingReturns[i]

\* A table with failed rows followed by computed rows.
C6_Witness ==
    /\ Generated
    /\ Len(Rows) = Len(underlyingReturns)
    /\ Rows[1].paymentAtMaturity = ERROR
    /\ Rows[Len(Rows)].paymentAtMaturity # ERROR
    /\ Rows[Len(Rows)].underlyingReturn = Num(-SCALE)

\* The error lines the table driver wrote to the console.
ErrorLines == {i \in 1..Len(console) : console[i].level = "error"}

\* C7 as stated: the call never throws, every row is there, a row is "ERROR"
\* when its calculatePaymentAtMaturity fails, and every row whose computation
\* does not fail carries the computed payment.
C7_AsStated ==
    Generated =>
        /\ ret.outcome = "return"
        /\ Len(Rows) = Len(underlyingReturns)
        /\ \A i \in 1..Len(underlyingReturns) :
               LET c == calculatePaymentAtMaturity(underlyingReturns[i], call.params)
               IN  /\ c.outcome = "throw" => Rows[i].paymentAtMaturity = ERROR
                   /\ c.outcome = "return" => Rows[i].paymentAtMaturity = c.value

\* C7 amended: the call never throws and every row is there; a row is "ERROR"
\* exactly when its calculatePaymentAtMaturity fails or returns a payment that
\* is not of type number (formatting it throws inside the same try block);
\* every other row carries the computed payment; one error line is written
\* per "ERROR" row.
C7_FailureIsolatedPerRow ==
    Generated =>
        /\ ret.outcome = "return"
        /\ Len(Rows) = Len(underlyingReturns)
        /\ \A i \in 1..Len(underlyingReturns) :
               LET c == calculatePaymentAtMaturity(underlyingReturns[i], call.params)
                   failed == c.outcome = "throw" \/ typeof(c.value) # "number"
               IN  /\ failed => Rows[i].paymentAtMaturity = ERROR
                   /\ ~failed => Rows[i].paymentAtMaturity = c.value
        /\ Cardinality(ErrorLines)
               = Cardinality({i \in 1..Len(Rows) : Rows[i].paymentAtMaturity = ERROR})

\* Every calculatePaymentAtMaturity fails (params is null) and is caught.
C7_Witness ==
    /\ Generated
    /\ call.params = Null
    /\ ret.outcome = "return"
    /\ Len(Rows) = Len(underlyingReturns)
    /\ \A i \in 1..Len(Rows) : Rows[i].paymentAtMaturity = ERROR

\* C9 as stated: for a parameter set validateFinancialParams accepts and
\* returns r1 <= r2 with 1 + r2 < BUFFER_THRESHOLD, the payment for r1 is <=
\* the payment for r2.
C9_DownsideMonotone ==
    (/\ Calculated
     /\ validateFinancialParams(call.params).outcome = "return"
     /\ IsReal(call.underlyingReturn)
     /\ Lt(Add(Num(SCALE), call.underlyingReturn), call.params.BUFFER_THRESHOLD)) =>
        \A r1 \in ReturnInputs :
            (IsReal(r1) /\ r1.v <= call.underlyingReturn.v) =>
                Le(calculatePaymentAtMaturity(r1, call.params).value, ret.value)

\* The table rows displayPaymentTable wrote to the console.
RowLines == {i \in 1..Len(console) : console[i].text = "row"}

\* C10: main generates and displays the table only after
\* validateFinancialParams(FINANCIAL_PARAMS) succeeded; when validation throws
\* main returns null with no row computed or displayed; when it succeeds main
\* returns the table with one row per sample return; main never throws.
C10_MainValidatesFirst ==
    call.op = "main" =>
        LET valid == validateFinancialParams(FINANCIAL_PARAMS).outcome = "return"
        IN  /\ pc \in {"main_generate", "main_display", "main_analysis"} => valid
            /\ paymentTable # NoTable => valid
            /\ RowLines # {} => valid /\ paymentTable # NoTable
            /\ pc = "returned" =>
                   /\ ret.outcome = "return"
                   /\ ~valid =>
                          /\ ret.value = Null
                          /\ paymentTable = NoTable
                          /\ RowLines = {}
                   /\ valid =>
                          /\ ret.value = generatePaymentTable(FINANCIAL_PARAMS).value
                          /\ Len(ret.value.rows) = Len(underlyingReturns)
                          /\ Cardinality(RowLines) = Len(underlyingReturns)

\* main returned null because the validation threw.
C10_Witness ==
    /\ MainReturned
    /\ validateFinancialParams(FINANCIAL_PARAMS).outcome = "throw"
    /\ ret.value = Null
    /\ paymentTable = NoTable

\* main returned the full table.
C10_TableReturned ==
    /\ MainReturned
    /\ ret.value # Null
    /\ Len(ret.value.rows) = Len(underlyingReturns)

====
